---- MODULE Spec2Model ----
(***************************************************************************)
(* A model of doxy-coverage.py: parse_file() extracts the symbol mapping   *)
(* of one Doxygen XML record, parse() groups the mappings by source file,  *)
(* report() prints the per-file coverage and computes the verdict, main()  *)
(* turns the verdict into the process exit status.                         *)
(*                                                                         *)
(* Python values are represented as follows.                               *)
(*   str        a sequence of code points (naturals), so that substring    *)
(*              tests and the ordering of list.sort() can be computed      *)
(*   None / x   an optional value is << >> (None) or <<x>>                 *)
(*   dict       the symbol mapping is a function from a set of str to      *)
(*              BOOLEAN; the file table, whose iteration order matters, is *)
(*              a sequence of [path, defs] in insertion order              *)
(*   int, float [type, num, den]: an int has den = 1, a float is the exact *)
(*              rational num/den (the quotients of the small naturals that *)
(*              occur here are far apart compared with a double's ulp, so  *)
(*              comparisons of the doubles and of the rationals agree)     *)
(***************************************************************************)
EXTENDS Integers, Sequences, FiniteSets, TLC

VARIABLES pc, ns, index_exists, record, tmp, files, output,
          total_yes, total_no, total_per, err, exit_code, fault

vars == <<pc, ns, index_exists, record, tmp, files, output,
          total_yes, total_no, total_per, err, exit_code, fault>>

\* ------------------------------------------------------------------------
\* Bounds and program constants

\* the longest record (number of memberdef elements) SpecFile draws
MaxMembers == 2

\* the longest index.xml (number of compound entries) Spec draws
MaxEntries == 3

ACCEPTABLE_COVERAGE == 80

\* ------------------------------------------------------------------------
\* Strings

None == << >>

Some(x) == <<x>>

\* "sa", "sb", "tA": the source files named by location elements
PathA == <<115, 97>>

PathB == <<115, 98>>

PathC == <<116, 65>>

\* "x", "y": symbol names
NameX == <<120>>

NameY == <<121>>

\* "d": the positional argument dir
Dir == <<100>>

\* "r": the refid of a compound entry
Refid == <<114>>

\* lexicographic order by code point: Python's str.__lt__
StrLT(a, b) ==
    \E i \in 1..(Len(a) + 1) :
        /\ i <= Len(b)
        /\ \A j \in 1..(i - 1) : a[j] = b[j]
        /\ (i > Len(a) \/ a[i] < b[i])

\* sub in s
Contains(sub, s) ==
    \E i \in 0..(Len(s) - Len(sub)) : SubSeq(s, i + 1, i + Len(sub)) = sub

\* os.path.join(path, "%s.xml" % refid)
PathJoin(path, refid) == path \o <<47>> \o refid \o <<46, 120, 109, 108>>

\* ------------------------------------------------------------------------
\* Numbers

IntNum(n) == [type |-> "int", num |-> n, den |-> 1]

\* a / b of Python 3 on two ints, and x * 100.0 / y: always a float
TrueDiv(a, b) == [type |-> "float", num |-> a, den |-> b]

NumLT(a, b) == a.num * b.den < b.num * a.den

\* a - b: an int only when both operands are
NumSub(a, b) ==
    [type |-> IF a.type = "int" /\ b.type = "int" THEN "int" ELSE "float",
     num |-> a.num * b.den - b.num * a.den,
     den |-> a.den * b.den]

\* "%d" % v for v >= 0: truncation
Trunc(v) == v.num \div v.den

\* ------------------------------------------------------------------------
\* parse_file

\* ShouldSkip with "or" for "and": C7_StaticFunctionsLeftOut fails on it
ShouldSkip_any(definition) ==
    definition.kind = "function" \/ definition.static = "yes"

\* "Should it be documented": the test that skips a memberdef
ShouldSkip(definition) ==
    definition.kind = "function" /\ definition.static = "yes"

\* "Is the definition documented?": some description element has a child
Documented(definition) ==
    IF definition.briefdescription THEN TRUE
    ELSE IF definition.detaileddescription THEN TRUE
    ELSE IF definition.inbodydescription THEN TRUE
    ELSE FALSE

\* the key under which the memberdef is stored
Name(definition) ==
    IF definition.definition # None THEN definition.definition[1]
    ELSE IF definition.name # None THEN definition.name[1]
    ELSE definition.id

\* not sourcefile: None and the empty string are both false
Falsy(sourcefile) == sourcefile = None \/ sourcefile[1] = << >>

\* NextSourcefile without the test "if not sourcefile": the last location
\* wins, and C9_FirstLocationOfKept fails on it
NextSourcefile_last(sourcefile, definition) ==
    IF definition.location # None THEN definition.location ELSE sourcefile

\* the sourcefile after a memberdef that was not skipped
NextSourcefile(sourcefile, definition) ==
    IF Falsy(sourcefile)
    THEN IF definition.location # None THEN definition.location ELSE sourcefile
    ELSE sourcefile

\* definitions[name] = documented
DictSet(d, k, v) == [x \in (DOMAIN d) \cup {k} |-> IF x = k THEN v ELSE d[x]]

EmptyDict == [x \in {} |-> TRUE]

RECURSIVE parse_loop(_, _, _, _)
parse_loop(memberdefs, i, sourcefile, definitions) ==
    IF i > Len(memberdefs)
    THEN [sourcefile |-> sourcefile, definitions |-> definitions]
    ELSE LET definition == memberdefs[i] IN
         IF ShouldSkip(definition)
         THEN parse_loop(memberdefs, i + 1, sourcefile, definitions)
         ELSE parse_loop(memberdefs, i + 1,
                         NextSourcefile(sourcefile, definition),
                         DictSet(definitions, Name(definition),
                                 Documented(definition)))

\* memberdefs is tree.findall("./compounddef//memberdef"): every memberdef
\* of the record, at any depth, in document order
parse_file(fullpath, memberdefs) ==
    LET r == parse_loop(memberdefs, 1, None, EmptyDict) IN
    [sourcefile |-> IF Falsy(r.sourcefile) THEN fullpath ELSE r.sourcefile[1],
     definitions |-> r.definitions]

\* ------------------------------------------------------------------------
\* parse

\* entry.get('kind') in ('dir'): ('dir') is the string 'dir', so this is a
\* substring test
IsDir(kind) == kind \in {"", "d", "i", "r", "di", "ir", "dir"}

HasKey(table, f) == \E i \in 1..Len(table) : table[i].path = f

\* files[f]
Lookup(table, f) ==
    table[CHOOSE i \in 1..Len(table) : table[i].path = f].defs

\* if tmp[1]: append to files[tmp[0]], or files[tmp[0]] = [tmp[1]]
AddResult(table, t) ==
    IF t.definitions = EmptyDict THEN table
    ELSE IF HasKey(table, t.sourcefile)
    THEN [i \in 1..Len(table) |->
             IF table[i].path = t.sourcefile
             THEN [table[i] EXCEPT !.defs = Append(@, t.definitions)]
             ELSE table[i]]
    ELSE Append(table, [path |-> t.sourcefile, defs |-> <<t.definitions>>])

RECURSIVE parse_entries(_, _, _, _)
parse_entries(path, index, i, table) ==
    IF i > Len(index) THEN table
    ELSE IF IsDir(index[i].kind)
    THEN parse_entries(path, index, i + 1, table)
    ELSE parse_entries(path, index, i + 1,
                       AddResult(table,
                                 parse_file(PathJoin(path, index[i].refid),
                                            index[i].memberdefs)))

\* the file table of an existing index.xml
parse(path, index) == parse_entries(path, index, 1, << >>)

\* ------------------------------------------------------------------------
\* report

RECURSIVE SumSeq(_)
SumSeq(s) == IF s = << >> THEN 0 ELSE Head(s) + SumSeq(Tail(s))

\* len([d[k] for d in defs for k in d if d[k]])
DocYes(defs) ==
    SumSeq([i \in 1..Len(defs) |->
               Cardinality({k \in DOMAIN defs[i] : defs[i][k]})])

\* len([d[k] for d in defs for k in d if not d[k]])
DocNo(defs) ==
    SumSeq([i \in 1..Len(defs) |->
               Cardinality({k \in DOMAIN defs[i] : ~defs[i][k]})])

\* get_coverage(f); a non-empty defs without any symbol would divide by
\* zero here, but parse() never stores an empty mapping
get_coverage(table, f) ==
    LET defs == Lookup(table, f) IN
    IF defs = << >> THEN IntNum(100)
    ELSE TrueDiv(DocYes(defs) * 100, DocYes(defs) + DocNo(defs))

\* (covA > covB) - (covA < covB)
file_cmp(table, a, b) ==
    LET covA == get_coverage(table, a)
        covB == get_coverage(table, b)
    IN (IF NumLT(covB, covA) THEN 1 ELSE 0) - (IF NumLT(covA, covB) THEN 1 ELSE 0)

Reverse(s) == [i \in 1..Len(s) |-> s[Len(s) + 1 - i]]

\* files.keys(), in insertion order
Keys(table) == [i \in 1..Len(table) |-> table[i].path]

\* sorted(..., key=functools.cmp_to_key(file_cmp)) is stable: x goes before
\* the first element that compares greater
RECURSIVE InsertByCmp(_, _, _)
InsertByCmp(table, s, x) ==
    IF s = << >> THEN <<x>>
    ELSE IF file_cmp(table, Head(s), x) > 0 THEN <<x>> \o s
    ELSE <<Head(s)>> \o InsertByCmp(table, Tail(s), x)

RECURSIVE SortByCmp(_, _, _)
SortByCmp(table, keys, n) ==
    IF n = 0 THEN << >>
    ELSE InsertByCmp(table, SortByCmp(table, keys, n - 1), keys[n])

\* files_sorted without reverse(): C1_PrintedDescending fails on it
files_sorted_ascending(table) ==
    SortByCmp(table, Keys(table), Len(table))

\* files_sorted after sorted() and reverse()
files_sorted(table) ==
    Reverse(SortByCmp(table, Keys(table), Len(table)))

\* Skip testing only the first exclusion string: C4_ExcludedNeverCounted
\* fails on it
Skip_first(exclude_dirs, f) ==
    exclude_dirs # << >> /\ Contains(exclude_dirs[1], f)

\* the loop over exclude_dirs that sets skip
Skip(exclude_dirs, f) ==
    \E i \in 1..Len(exclude_dirs) : Contains(exclude_dirs[i], f)

RECURSIVE InsertStr(_, _)
InsertStr(s, x) ==
    IF s = << >> THEN <<x>>
    ELSE IF StrLT(x, Head(s)) THEN <<x>> \o s
    ELSE <<Head(s)>> \o InsertStr(Tail(s), x)

\* the keys in S, sorted
RECURSIVE SortedSet(_)
SortedSet(S) ==
    IF S = {} THEN << >>
    ELSE LET x == CHOOSE y \in S : \A z \in S : z = y \/ StrLT(y, z)
         IN <<x>> \o SortedSet(S \ {x})

RECURSIVE MergeSorted(_, _)
MergeSorted(s, t) == IF t = << >> THEN s ELSE MergeSorted(InsertStr(s, Head(t)), Tail(t))

\* defs_sorted without sort(): C10_UndocumentedPerMapping fails on it
RECURSIVE defs_unsorted(_)
defs_unsorted(defs) ==
    IF defs = << >> THEN << >>
    ELSE SortedSet({k \in DOMAIN Head(defs) : ~Head(defs)[k]})
         \o defs_unsorted(Tail(defs))

\* defs_sorted = [k for d in defs for k in d if not d[k]]; defs_sorted.sort()
\* (one element for each mapping in which k is undocumented)
RECURSIVE defs_sorted(_)
defs_sorted(defs) ==
    IF defs = << >> THEN << >>
    ELSE MergeSorted(SortedSet({k \in DOMAIN Head(defs) : ~Head(defs)[k]}),
                     defs_sorted(Tail(defs)))

\* what the body of the loop prints for f
PrintedEntry(table, f) ==
    LET defs == Lookup(table, f)
        doc_yes == DocYes(defs)
        doc_no == DocNo(defs)
        doc_per == TrueDiv(doc_yes * 100, doc_yes + doc_no)
    IN [per |-> Trunc(doc_per), path |-> f, yes |-> doc_yes,
        total |-> doc_yes + doc_no, undoc |-> defs_sorted(defs)]

\* the loop over files_sorted: the lines printed and the two totals
RECURSIVE report_loop(_, _, _, _, _)
report_loop(table, exclude_dirs, order, i, acc) ==
    IF i > Len(order) THEN acc
    ELSE LET f == order[i]
             defs == Lookup(table, f)
         IN IF Skip(exclude_dirs, f) \/ defs = << >>
            THEN report_loop(table, exclude_dirs, order, i + 1, acc)
            ELSE report_loop(table, exclude_dirs, order, i + 1,
                     [output |-> Append(acc.output, PrintedEntry(table, f)),
                      total_yes |-> acc.total_yes + DocYes(defs),
                      total_no |-> acc.total_no + DocNo(defs)])

\* total_per = total_yes * 100 / total_all
TotalPer(yes, all) == TrueDiv(yes * 100, all)

\* Verdict with the two elements of the tuple swapped: C3_Verdict fails on it
Verdict_swapped(threshold, per) ==
    IF NumLT(IntNum(threshold), per) THEN NumSub(IntNum(threshold), per)
    ELSE IntNum(0)

\* (ns.threshold - total_per, 0)[total_per > ns.threshold]
Verdict(threshold, per) ==
    IF NumLT(IntNum(threshold), per) THEN IntNum(0)
    ELSE NumSub(IntNum(threshold), per)

\* sys.exit(arg): an int is the exit status, any other object is printed
\* to stderr and the status is 1
ExitStatus(arg) == IF arg.type = "int" THEN arg.num % 256 ELSE 1

\* ------------------------------------------------------------------------
\* Inputs

\* --threshold
Thresholds == {50, ACCEPTABLE_COVERAGE, 100}

\* --excludedirs: none, "a", "b" "sa", and the empty string
ExcludeLists == {<< >>, <<<<97>>>>, <<<<98>>, <<115, 97>>>>, <<<< >>>>}

\* the description elements and the naming elements of a memberdef:
\* brief and <definition>x, nothing and <name>x, in-body and only the
\* id y, detailed and <definition>y with <name>x
Bodies ==
    {[brief |-> TRUE, detailed |-> FALSE, inbody |-> FALSE,
      definition |-> Some(NameX), name |-> None],
     [brief |-> FALSE, detailed |-> FALSE, inbody |-> FALSE,
      definition |-> None, name |-> Some(NameX)],
     [brief |-> FALSE, detailed |-> FALSE, inbody |-> TRUE,
      definition |-> None, name |-> None],
     [brief |-> FALSE, detailed |-> TRUE, inbody |-> FALSE,
      definition |-> Some(NameY), name |-> Some(NameX)]}

\* no location element, a location whose file is empty, and two files
Locations == {None, Some(<< >>), Some(PathA), Some(PathB)}

MemberDefs ==
    {[kind |-> k, static |-> s,
      briefdescription |-> b.brief, detaileddescription |-> b.detailed,
      inbodydescription |-> b.inbody,
      definition |-> b.definition, name |-> b.name, id |-> NameY,
      location |-> l] :
        k \in {"function", "variable"}, s \in {"yes", "no"},
        b \in Bodies, l \in Locations}

\* the records SpecFile draws
Records == UNION {[1..n -> MemberDefs] : n \in 0..MaxMembers}

\* a variable named name at loc, documented by a brief description or not
Sym(name, doc, loc) ==
    [kind |-> "variable", static |-> "no",
     briefdescription |-> doc, detaileddescription |-> FALSE,
     inbodydescription |-> FALSE,
     definition |-> Some(name), name |-> Some(name), id |-> name,
     location |-> loc]

StaticFn ==
    [kind |-> "function", static |-> "yes",
     briefdescription |-> TRUE, detaileddescription |-> FALSE,
     inbodydescription |-> FALSE,
     definition |-> Some(NameX), name |-> Some(NameX), id |-> NameX,
     location |-> Some(PathA)]

\* the records Spec draws: per file 1 of 1, 0 of 1 and 1 of 2 documented,
\* a record of one static function, a record without location
IndexRecords ==
    UNION {{<<Sym(NameX, TRUE, Some(p))>>,
            <<Sym(NameX, FALSE, Some(p))>>,
            <<Sym(NameX, TRUE, Some(p)), Sym(NameY, FALSE, Some(p))>>} :
               p \in {PathA, PathB, PathC}}
    \cup {<<StaticFn>>, <<Sym(NameX, FALSE, None)>>}

IndexEntries ==
    {[kind |-> "file", refid |-> Refid, memberdefs |-> r] : r \in IndexRecords}
    \cup {[kind |-> "dir", refid |-> Refid, memberdefs |-> << >>]}

\* the contents of index.xml Spec draws
Indices == UNION {[1..n -> IndexEntries] : n \in 0..MaxEntries}

\* ------------------------------------------------------------------------
\* main

Init ==
    /\ pc = "parse"
    /\ ns \in [noerror : BOOLEAN, threshold : Thresholds,
               excludedirs : ExcludeLists, dir : {Dir}]
    /\ index_exists \in BOOLEAN
    /\ record = << >>
    /\ tmp = None
    /\ files = << >>
    /\ output = << >>
    /\ total_yes = 0
    /\ total_no = 0
    /\ total_per = None
    /\ err = None
    /\ exit_code = None
    /\ fault = "none"

\* parse(): index.xml is missing, FATAL() exits
Fatal ==
    /\ pc = "parse"
    /\ ~index_exists
    /\ exit_code' = Some(IF ns.noerror THEN 0 ELSE 1)
    /\ pc' = "exited"
    /\ UNCHANGED <<ns, index_exists, record, tmp, files, output,
                   total_yes, total_no, total_per, err, fault>>

\* parse(): index.xml is read and every entry of it is parsed
Parse ==
    /\ pc = "parse"
    /\ index_exists
    /\ \E index \in Indices : files' = parse(ns.dir, index)
    /\ pc' = "report"
    /\ UNCHANGED <<ns, index_exists, record, tmp, output,
                   total_yes, total_no, total_per, err, exit_code, fault>>

\* report(): the loop, then the total; the division raises
\* ZeroDivisionError when nothing was counted, which nothing catches, so
\* the interpreter exits with status 1
Report ==
    /\ pc = "report"
    /\ LET r == report_loop(files, ns.excludedirs, files_sorted(files), 1,
                            [output |-> << >>, total_yes |-> 0, total_no |-> 0])
           total_all == r.total_yes + r.total_no
       IN /\ output' = r.output
          /\ total_yes' = r.total_yes
          /\ total_no' = r.total_no
          /\ IF total_all = 0
             THEN /\ fault' = "ZeroDivisionError"
                  /\ exit_code' = Some(1)
                  /\ pc' = "exited"
                  /\ UNCHANGED <<total_per, err>>
             ELSE /\ total_per' = Some(TotalPer(r.total_yes, total_all))
                  /\ err' = Some(Verdict(ns.threshold,
                                         TotalPer(r.total_yes, total_all)))
                  /\ pc' = "exit"
                  /\ UNCHANGED <<fault, exit_code>>
    /\ UNCHANGED <<ns, index_exists, record, tmp, files>>

\* main(): return when ns.noerror, else sys.exit(err)
Exit ==
    /\ pc = "exit"
    /\ exit_code' = Some(IF ns.noerror THEN 0 ELSE ExitStatus(err[1]))
    /\ pc' = "exited"
    /\ UNCHANGED <<ns, index_exists, record, tmp, files, output,
                   total_yes, total_no, total_per, err, fault>>

Next == Fatal \/ Parse \/ Report \/ Exit

Spec == Init /\ [][Next]_vars

\* ------------------------------------------------------------------------
\* main on an index.xml of one record, drawn from Records

InitFile ==
    /\ pc = "parse"
    /\ ns = [noerror |-> FALSE, threshold |-> ACCEPTABLE_COVERAGE,
             excludedirs |-> << >>, dir |-> Dir]
    /\ index_exists = TRUE
    /\ record \in Records
    /\ tmp = None
    /\ files = << >>
    /\ output = << >>
    /\ total_yes = 0
    /\ total_no = 0
    /\ total_per = None
    /\ err = None
    /\ exit_code = None
    /\ fault = "none"

\* parse(): the one entry is parsed; tmp is what parse_file() returned
ParseRecord ==
    /\ pc = "parse"
    /\ tmp' = Some(parse_file(PathJoin(ns.dir, Refid), record))
    /\ files' = parse(ns.dir, <<[kind |-> "file", refid |-> Refid,
                                 memberdefs |-> record]>>)
    /\ pc' = "report"
    /\ UNCHANGED <<ns, index_exists, record, output,
                   total_yes, total_no, total_per, err, exit_code, fault>>

NextFile == ParseRecord \/ Report \/ Exit

SpecFile == InitFile /\ [][NextFile]_vars

\* ------------------------------------------------------------------------
\* Properties of report(): the order of the printed paths

\* the exact coverage of printed entry a is at most that of b
CovLE(a, b) == a.yes * b.total <= b.yes * a.total

\* C1 as stated: report() prints the paths in ascending order of coverage:
\* whenever p is printed before q, coverage(p) <= coverage(q)
C1_PrintedAscending ==
    \A i \in 1..Len(output) : \A j \in 1..Len(output) :
        i < j => CovLE(output[i], output[j])

\* C1 amended: report() prints the paths in descending order of coverage
\* (highest coverage first): whenever p is printed before q,
\* coverage(p) >= coverage(q)
C1_PrintedDescending ==
    \A i \in 1..Len(output) : \A j \in 1..Len(output) :
        i < j => CovLE(output[j], output[i])

\* three paths of three different coverages are printed, and the file
\* table holds them in another order
C1_Witness ==
    /\ pc = "exited"
    /\ Len(output) = 3
    /\ ~CovLE(output[1], output[2])
    /\ ~CovLE(output[2], output[3])
    /\ Keys(files) # [i \in 1..3 |-> output[i].path]
    /\ Keys(files) # [i \in 1..3 |-> output[4 - i].path]

\* ------------------------------------------------------------------------
\* Properties of report(): the total and the verdict

\* C2: total_per is the integer (total_yes * 100) div (total_yes +
\* total_no), a whole number in 0..100, and the deficit threshold -
\* total_per is a whole number
C2_TotalPercentTruncated ==
    total_per # None =>
        /\ total_per[1].num =
               total_per[1].den * ((total_yes * 100) \div (total_yes + total_no))
        /\ err[1].num % err[1].den = 0

\* C3: when at least one symbol was counted, the verdict is 0 if total_per
\* > threshold and threshold - total_per otherwise; it is never negative
\* and it is 0 when total_per equals the threshold
C3_Verdict ==
    (pc \in {"exit", "exited"} /\ total_yes + total_no > 0) =>
        /\ total_per # None
        /\ err # None
        /\ LET tp == total_per[1]
               v == err[1]
           IN /\ tp.num * (total_yes + total_no) = total_yes * 100 * tp.den
              /\ tp.num > ns.threshold * tp.den => v.num = 0
              /\ tp.num <= ns.threshold * tp.den =>
                     v.num * tp.den = (ns.threshold * tp.den - tp.num) * v.den
              /\ v.num >= 0
              /\ v.den > 0
              /\ tp.num = ns.threshold * tp.den => v.num = 0

\* a run whose total equals the threshold, one above and one below it
C3_Witness ==
    /\ pc = "exit"
    /\ total_yes > 0
    /\ total_no > 0
    /\ total_per[1].num = ns.threshold * total_per[1].den
    /\ err[1].num = 0

\* C8: when every symbol of the file table is documented and threshold <=
\* 100, report() yields a total of 100 and the verdict 0
C8_AllDocumentedPasses ==
    (/\ pc \in {"exit", "exited"}
     /\ index_exists
     /\ ns.threshold <= 100
     /\ \A i \in 1..Len(files) : DocNo(files[i].defs) = 0) =>
        /\ fault = "none"
        /\ total_per # None
        /\ total_per[1].num = 100 * total_per[1].den
        /\ err # None
        /\ err[1].num = 0

\* C5: when no symbol is counted (empty file table, or every path
\* excluded) report() completes without a division fault and yields a
\* total and a verdict
C5_EmptyCorpusCompletes ==
    (pc \in {"exit", "exited"} /\ index_exists /\ total_yes + total_no = 0) =>
        /\ fault = "none"
        /\ total_per # None
        /\ err # None

\* ------------------------------------------------------------------------
\* Properties of report(): exclusion

\* sub occurs in s, stated on the positions of s
Occurs(sub, s) ==
    \E a \in 0..Len(s) : \E b \in a..Len(s) :
        sub = [k \in 1..(b - a) |-> s[a + k]]

Excluded(f) ==
    \E i \in 1..Len(ns.excludedirs) : Occurs(ns.excludedirs[i], f)

RECURSIVE SumOver(_, _, _)
SumOver(F(_), s, n) == IF n = 0 THEN 0 ELSE F(s[n]) + SumOver(F, s, n - 1)

PrintedYes(e) == e.yes

PrintedNo(e) == e.total - e.yes

IncludedYes(e) == IF Excluded(e.path) THEN 0 ELSE DocYes(e.defs)

IncludedNo(e) == IF Excluded(e.path) THEN 0 ELSE DocNo(e.defs)

\* C4: no printed path contains an exclusion substring, an excluded path
\* adds nothing to total_yes / total_no, and the totals are the sums of the
\* counts of the printed paths
C4_ExcludedNeverCounted ==
    /\ \A i \in 1..Len(output) : ~Excluded(output[i].path)
    /\ total_yes = SumOver(PrintedYes, output, Len(output))
    /\ total_no = SumOver(PrintedNo, output, Len(output))
    /\ pc \in {"exit", "exited"} /\ index_exists =>
           /\ total_yes = SumOver(IncludedYes, files, Len(files))
           /\ total_no = SumOver(IncludedNo, files, Len(files))
           /\ \A i \in 1..Len(files) :
                  ~Excluded(files[i].path) =>
                      \E j \in 1..Len(output) : output[j].path = files[i].path

\* an excluded path that a later exclusion string matches and that holds
\* documented and undocumented symbols, next to a printed path
C4_Witness ==
    /\ pc = "exit"
    /\ Len(output) > 0
    /\ \E i \in 1..Len(files) :
           /\ Excluded(files[i].path)
           /\ ~Occurs(ns.excludedirs[1], files[i].path)
           /\ DocYes(files[i].defs) > 0
           /\ DocNo(files[i].defs) > 0

\* ------------------------------------------------------------------------
\* Properties of report(): the undocumented identifiers

\* the number of positions of s that hold x
Count(s, x) == Cardinality({i \in 1..Len(s) : s[i] = x})

\* the mappings of defs in which k is undocumented
UndocumentedIn(defs, k) ==
    {i \in 1..Len(defs) : k \in DOMAIN defs[i] /\ ~defs[i][k]}

\* non-strictly ascending in the order of str
Ascending(s) ==
    \A i \in 1..Len(s) : \A j \in 1..Len(s) : i < j => ~StrLT(s[j], s[i])

\* C10 as stated: the list printed beneath a path is sorted and holds each
\* identifier that is undocumented in one or more of the path's mappings
\* exactly once
C10_UndocumentedOnce ==
    \A n \in 1..Len(output) :
        LET defs == Lookup(files, output[n].path)
            keys == UNION {DOMAIN defs[i] : i \in 1..Len(defs)}
        IN /\ Ascending(output[n].undoc)
           /\ \A k \in keys :
                  Count(output[n].undoc, k) =
                      IF UndocumentedIn(defs, k) = {} THEN 0 ELSE 1

\* C10 amended: the list printed beneath a path is sorted and holds each
\* identifier once for every mapping of the path in which it is
\* undocumented, and nothing else
C10_UndocumentedPerMapping ==
    \A n \in 1..Len(output) :
        LET defs == Lookup(files, output[n].path)
            keys == UNION {DOMAIN defs[i] : i \in 1..Len(defs)}
        IN /\ Ascending(output[n].undoc)
           /\ \A k \in keys :
                  Count(output[n].undoc, k) = Cardinality(UndocumentedIn(defs, k))
           /\ \A i \in 1..Len(output[n].undoc) : output[n].undoc[i] \in keys

\* a path of three mappings: x is undocumented in two of them and is
\* printed twice, before y
C10_Witness ==
    /\ pc = "exited"
    /\ \E n \in 1..Len(output) :
           /\ Len(Lookup(files, output[n].path)) = 3
           /\ output[n].undoc = <<NameX, NameX, NameY>>
           /\ output[n].yes = 1

\* ------------------------------------------------------------------------
\* Properties of main(): the exit status

\* C6: with --noerror every run ends with exit status 0, whatever report()
\* computes and also when index.xml is missing; without --noerror a
\* missing index.xml ends the run with status 1 before anything is parsed
\* or printed
C6_NoerrorExitsZero ==
    pc = "exited" =>
        /\ ns.noerror => exit_code = Some(0)
        /\ (~ns.noerror /\ ~index_exists) =>
               /\ exit_code = Some(1)
               /\ files = << >>
               /\ output = << >>

\* ------------------------------------------------------------------------
\* Properties of parse_file() and parse()

\* the memberdefs of the record that are not static functions
Kept == {i \in 1..Len(record) :
            ~(record[i].kind = "function" /\ record[i].static = "yes")}

\* the last memberdef of Kept stored under k
LastKept(k) ==
    CHOOSE i \in Kept :
        /\ Name(record[i]) = k
        /\ \A j \in Kept : Name(record[j]) = k => j <= i

\* C7: the mapping parse_file() returns has an entry for every memberdef
\* that is not a static function and for nothing else, so a static
\* function is in no count, and parse() adds the mapping to the file table
\* unless it is empty, as it is for a record of static functions only
C7_StaticFunctionsLeftOut ==
    tmp # None =>
        LET definitions == tmp[1].definitions IN
        /\ DOMAIN definitions = {Name(record[i]) : i \in Kept}
        /\ \A k \in DOMAIN definitions :
               definitions[k] = Documented(record[LastKept(k)])
        /\ IF Kept = {} THEN files = << >>
           ELSE files = <<[path |-> tmp[1].sourcefile, defs |-> <<definitions>>]>>
        /\ pc = "exited" =>
               /\ total_yes + total_no = Cardinality({Name(record[i]) : i \in Kept})
               /\ \A n \in 1..Len(output) :
                      output[n].total = Cardinality({Name(record[i]) : i \in Kept})

\* a documented static function named x is followed by a static variable
\* named x without description: only the variable is stored and counted
C7_Witness ==
    /\ pc = "exited"
    /\ Len(record) = 2
    /\ record[1].kind = "function" /\ record[1].static = "yes"
    /\ Documented(record[1]) /\ Name(record[1]) = NameX
    /\ record[2].kind = "variable" /\ record[2].static = "yes"
    /\ ~Documented(record[2]) /\ Name(record[2]) = NameX
    /\ tmp[1].definitions = DictSet(EmptyDict, NameX, FALSE)
    /\ total_no = 1
    /\ total_yes = 0

\* the memberdefs, static functions included, that carry a location whose
\* file is not empty
WithLocation == {i \in 1..Len(record) : record[i].location # None
                                        /\ record[i].location[1] # << >>}

\* the memberdefs that are not static functions and carry a location
\* whose file is not empty
WithFile == {i \in Kept : record[i].location # None
                          /\ record[i].location[1] # << >>}

Min(S) == CHOOSE i \in S : \A j \in S : i <= j

\* C9 as stated: the path parse_file() returns is the location file of the
\* first memberdef of the record that carries a location, and the record's
\* own path only if no memberdef carries one
C9_FirstLocationOfAll ==
    tmp # None =>
        tmp[1].sourcefile =
            IF WithLocation = {} THEN PathJoin(ns.dir, Refid)
            ELSE record[Min(WithLocation)].location[1]

\* C9 amended: the path parse_file() returns is the location file of the
\* first memberdef, among those that are not static functions, that carries
\* a location with a non-empty file; later locations never replace it; the
\* record's own path is returned only if there is no such memberdef
C9_FirstLocationOfKept ==
    tmp # None =>
        tmp[1].sourcefile =
            IF WithFile = {} THEN PathJoin(ns.dir, Refid)
            ELSE record[Min(WithFile)].location[1]

\* two memberdefs that are not static functions carry different files: the
\* first one's is returned
C9_Witness ==
    /\ tmp # None
    /\ Len(record) = 2
    /\ WithFile = {1, 2}
    /\ record[1].location # record[2].location
    /\ tmp[1].sourcefile = record[1].location[1]

====
